---- MODULE Spec2Model ----
(***************************************************************************)
(* A state-machine model of proxy_switcher.py, the Clash Verge proxy       *)
(* switcher: the profile registry file, the control-plane calls to the     *)
(* mihomo daemon, the concurrent delay-probing round of `test` and `best`, *)
(* and the two-step profile switch.                                        *)
(*                                                                         *)
(* Strings the program searches in (profile names, uids, queries, node     *)
(* names) are sequences of characters; a Chinese character of the source   *)
(* is written as its pinyin syllable.  Python values returned by           *)
(* api_request are tagged: None, or a dict carried as a function.          *)
(***************************************************************************)
EXTENDS Integers, Sequences, FiniteSets, TLC

VARIABLES
    registry,   \* PROFILES_YAML on disk: the sequence of its top-level <<key, value>> entries
    endpoint,   \* "live": the daemon answers each delay call as it likes; else a frozen mock table
    pc,         \* where the main thread is: "idle" between invocations, else a place in a cmd_*
    cmd,        \* the command being run and its arguments (sys.argv)
    profiles,   \* local `profiles` of the command: what get_remote_profiles returned
    match,      \* local `match` of cmd_switch_profile
    names,      \* the names submitted to the pool, in submission order (real_nodes / actual_nodes)
    types,      \* for each submitted name, the type the listing of GET /proxies gave it
    queue,      \* submitted probes no worker has taken yet (the pool's work queue, FIFO)
    running,    \* probes a worker is executing (in flight)
    finished,   \* completed futures as_completed has not yielded yet: name -> delay
    results,    \* local `results`: appended in completion order, then sorted in place
    puts,       \* the PUT requests this invocation has issued, in order
    writes,     \* how many times this invocation has written PROFILES_YAML
    out,        \* what this invocation has printed, in order
    prev        \* the sorted results of the previous round against a frozen endpoint

vars == <<registry, endpoint, pc, cmd, profiles, match, names, types, queue,
          running, finished, results, puts, writes, out, prev>>

-----------------------------------------------------------------------------
(* Bounds of the model. *)

MaxDelay == 2
MaxQuery == 2
\* the members of the large group of the pool specification, and how many of their
\* delay calls return
PoolSize == 17
PoolAnswering == 2

-----------------------------------------------------------------------------
(* Strings. *)

LowerTable == [A |-> "a", B |-> "b", H |-> "h", O |-> "o", W |-> "w"]

LowerChar(c) == IF c \in DOMAIN LowerTable THEN LowerTable[c] ELSE c

\* str.lower()
lower(s) == [i \in 1..Len(s) |-> LowerChar(s[i])]

\* Python's `sub in s` on strings
Contains(sub, s) ==
    \E i \in 0..(Len(s) - Len(sub)) : SubSeq(s, i + 1, i + Len(sub)) = sub

\* dict.get(key, default) on a dict carried as a function
DictGet(d, k, default) == IF k \in DOMAIN d THEN d[k] ELSE default

INFO_KEYWORDS ==
    { <<"sheng", "yu", "liu", "liang">>, <<"ju", "li", "xia", "ci">>,
      <<"tao", "can", "dao", "qi">>,     <<"guo", "qi", "shi", "jian">>,
      <<"dao", "qi", "shi", "jian">>,    <<"guan", "wang">> }

\* any(kw in name for kw in INFO_KEYWORDS)
HasInfoKeyword(name) == \E kw \in INFO_KEYWORDS : Contains(kw, name)

ReservedTypes == {"Selector", "Direct", "Reject", "RejectDrop", "Pass", "Compatible"}

-----------------------------------------------------------------------------
(* The control-plane client. *)

None == [t |-> "None"]

Dict(d) == [t |-> "dict", d |-> d]

\* json.loads of a body that is a JSON number, not an object
Number(n) == [t |-> "number", n |-> n]

\* Python truthiness of what api_request returns: None, {} and 0 are falsy
Truthy(v) ==
    \/ v.t = "dict" /\ DOMAIN v.d # {}
    \/ v.t = "number" /\ v.n # 0

\* `key in v` for a dict v
HasKey(v, k) == v.t = "dict" /\ k \in DOMAIN v.d

\* What urlopen can do: 204, another 2xx with a JSON body, an HTTPError, any other exception.
api_request(http) ==
    CASE http.kind = "204" -> None
      [] http.kind = "json" -> Dict(http.body)
      [] http.kind = "json_number" -> Number(http.n)
      [] http.kind = "HTTPError" -> Dict([error |-> http.code, message |-> http.text])
      [] OTHER -> Dict([error |-> http.reason])

HttpFailures ==
    { [kind |-> "HTTPError", code |-> 404, text |-> "not found"],
      [kind |-> "exception", reason |-> "timed out"] }

NoContent == [kind |-> "204"]

Json(body) == [kind |-> "json", body |-> body]

JsonNumber(n) == [kind |-> "json_number", n |-> n]

\* What a probe's future can hold is carried as an integer: a numeric delay is itself
\* and -1 is the sentinel of line 122.  Two codes below -1 stand for the rest:
\* a `delay` field that is no number (null, a string), returned as it is by line 121,
NotANumber == -2
\* and an exception raised inside test_single_node_delay, kept by the future.
Raised == -3

-----------------------------------------------------------------------------
(* The profile registry file. *)

\* yaml.safe_load of a mapping document: the last entry of a repeated key wins
safe_load(doc) ==
    [k \in {doc[i][1] : i \in DOMAIN doc} |->
        doc[CHOOSE i \in DOMAIN doc :
                /\ doc[i][1] = k
                /\ \A j \in DOMAIN doc : doc[j][1] = k => j <= i][2]]

KeyOrder == <<"current", "items", "valid">>

RECURSIVE DumpFrom(_, _)
DumpFrom(data, i) ==
    IF i > Len(KeyOrder) THEN <<>>
    ELSE (IF KeyOrder[i] \in DOMAIN data
             THEN << <<KeyOrder[i], data[KeyOrder[i]]>> >>
             ELSE <<>>) \o DumpFrom(data, i + 1)

\* yaml.dump of a mapping: one entry per key, keys sorted
dump(data) == DumpFrom(data, 1)

load_profiles_yaml == safe_load(registry)

\* Mutant: the registry is rebuilt from the two fields the tool knows.
SetCurrentKnownFieldsOnly(data, uid) ==
    [k \in {"current", "items"} |-> IF k = "current" THEN uid ELSE DictGet(data, "items", <<>>)]

\* data["current"] = uid
SetCurrent(data, uid) ==
    [k \in DOMAIN data \cup {"current"} |-> IF k = "current" THEN uid ELSE data[k]]

RECURSIVE RemoteProfilesOf(_, _)
RemoteProfilesOf(items, current_uid) ==
    IF items = <<>> THEN <<>>
    ELSE LET item == Head(items)
         IN (IF DictGet(item, "type", "None") = "remote"
                THEN << [uid    |-> item.uid,
                         name   |-> DictGet(item, "name", item.uid),
                         file   |-> DictGet(item, "file", ""),
                         active |-> item.uid = current_uid,
                         url    |-> DictGet(item, "url", ""),
                         extra  |-> DictGet(item, "extra", None)] >>
                ELSE <<>>) \o RemoteProfilesOf(Tail(items), current_uid)

get_remote_profiles ==
    LET data == load_profiles_yaml
    IN RemoteProfilesOf(DictGet(data, "items", <<>>), DictGet(data, "current", <<>>))

PROFILES_DIR == "profiles"

\* str(PROFILES_DIR / file)
ProfilePath(file) == <<PROFILES_DIR, file>>

-----------------------------------------------------------------------------
(* What the environment can hold: registry files, command arguments, daemon answers. *)

Home == <<"H", "o", "m", "e">>
Work == <<"W", "o", "r", "k">>

ItemA == [uid |-> <<"a", "1">>, type |-> "remote", name |-> Home, file |-> "a1.yaml",
          url |-> "https://sub.example/a1"]
ItemB == [uid |-> <<"b", "2">>, type |-> "remote", name |-> Work, file |-> "b2.yaml"]
\* a remote item without a name: get_remote_profiles names it by its uid
ItemC == [uid |-> <<"W", "2">>, type |-> "remote", file |-> "w2.yaml"]
\* a non-remote item (Clash Verge keeps merge and script items in the same list)
ItemM == [uid |-> <<"z", "2">>, type |-> "merge", name |-> Work, file |-> "z2.yaml"]

ItemLists ==
    { <<ItemA, ItemB>>, <<ItemB, ItemA>>, <<ItemM, ItemA, ItemB>>, <<ItemA, ItemC, ItemM>> }

Currents == { <<"a", "1">>, <<"b", "2">>, <<"z", "2">> }

\* Registry files: as the profile manager wrote them, with or without a current pointer.
Registries ==
    { << <<"items", items>>, <<"current", c>>, <<"valid", "dns">> >> :
          c \in Currents, items \in ItemLists }
    \cup { << <<"valid", "dns">>, <<"items", items>> >> : items \in ItemLists }

QueryChars == {"o", "W", "2", "z"}

RECURSIVE StringsUpTo(_)
StringsUpTo(n) ==
    IF n = 0 THEN { <<>> }
    ELSE LET shorter == StringsUpTo(n - 1)
         IN shorter \cup { Append(s, c) : s \in shorter, c \in QueryChars }

Queries == StringsUpTo(MaxQuery)

N1 == <<"N", "1">>
N2 == <<"N", "2">>
N3 == <<"N", "3">>
Proxies == <<"P", "r", "o", "x", "i", "e", "s">>
Auto == <<"A", "u", "t", "o">>
DIRECT == <<"D", "I", "R", "E", "C", "T">>
REJECT == <<"R", "E", "J", "E", "C", "T">>
PASS == <<"P", "A", "S", "S">>
\* a subscription's account row: "guan wang: x"
InfoRow == <<"guan", "wang", ":", "x">>

Groups == {Proxies, Auto}

\* The entries the daemon may have loaded, in the order it lists them.
ListingUniverse ==
    << <<Proxies, [type |-> "Selector"]>>,
       <<N1, [type |-> "Shadowsocks"]>>,
       <<N2, [type |-> "Vmess"]>>,
       <<DIRECT, [type |-> "Direct"]>>,
       <<InfoRow, [type |-> "Shadowsocks"]>>,
       <<N3, [type |-> "Trojan"]>> >>

\* The members a group may have, in the order the daemon lists them.
MemberUniverse == <<Auto, N2, N1, DIRECT, InfoRow>>

RECURSIVE Pick(_, _, _)
Pick(u, S, i) ==
    IF i > Len(u) THEN <<>>
    ELSE (IF i \in S THEN <<u[i]>> ELSE <<>>) \o Pick(u, S, i + 1)

SubSequences(u) == { Pick(u, S, 1) : S \in SUBSET (1..Len(u)) }

\* An ordered dict is the sequence of its <<key, value>> items.
Keys(od) == [i \in 1..Len(od) |-> od[i][1]]

HasItem(od, k) == \E i \in DOMAIN od : od[i][1] = k

Item(od, k) == od[CHOOSE i \in DOMAIN od : od[i][1] = k][2]

JsonFailures == { Json([message |-> "error"]) } \cup HttpFailures

\* GET /proxies
ListingResponses ==
    { Json([proxies |-> l]) : l \in SubSequences(ListingUniverse) }
    \cup JsonFailures \cup {NoContent}

\* GET /proxies/{group}
GroupResponses ==
    { Json([all |-> a, now |-> "now"]) : a \in SubSequences(MemberUniverse) }
    \cup JsonFailures \cup {NoContent}

\* PUT /proxies/{group} and PUT /configs?force=true
PutResponses == {NoContent} \cup JsonFailures

\* GET /version
VersionResponses == { Json([version |-> "v1"]), NoContent } \cup HttpFailures

\* GET /configs
ConfigResponses == { Json([mode |-> "rule"]), NoContent } \cup HttpFailures

\* GET /proxies/{node}/delay
DelayAnswers ==
    { Json([delay |-> d]) : d \in 0..MaxDelay } \cup JsonFailures \cup {NoContent}
    \cup { Json([delay |-> NotANumber]), JsonNumber(1) }

Live == [frozen |-> FALSE, table |-> <<>>, listing |-> <<>>, members |-> <<>>]

\* A frozen mock endpoint answers each call the same way every time: `listing` to
\* GET /proxies, `members` of the group to GET /proxies/{group}, and to a delay call what
\* `table` holds for the name.
Mock(table, listing, members) ==
    [frozen |-> TRUE, table |-> table, listing |-> listing, members |-> members]

\* a delay call that has not returned: urlopen waits up to its timeout of 10 seconds
Pending == [kind |-> "pending"]

ListingAnswers ==
    IF endpoint.frozen THEN {Json([proxies |-> endpoint.listing])} ELSE ListingResponses

GroupAnswers(group) ==
    IF endpoint.frozen
       THEN {Json([all |-> Item(endpoint.members, group), now |-> "now"])}
       ELSE GroupResponses

DelayResponses(name) ==
    IF endpoint.frozen
       THEN (IF HasItem(endpoint.table, name)
                THEN {Item(endpoint.table, name)} \ {Pending}
                ELSE {[kind |-> "HTTPError", code |-> 404, text |-> "not found"]})
       ELSE DelayAnswers

-----------------------------------------------------------------------------
(* Initial state: the tool is not running; the registry is any registry file. *)

NoCmd == [name |-> "none", arg |-> <<>>, group |-> <<>>]

Cmd(name, arg, group) == [name |-> name, arg |-> arg, group |-> group]

Say(msg, arg) == [msg |-> msg, arg |-> arg]

Locals ==
    /\ cmd = NoCmd
    /\ profiles = <<>>
    /\ match = None
    /\ names = <<>>
    /\ types = <<>>
    /\ queue = <<>>
    /\ running = {}
    /\ finished = {}
    /\ results = <<>>
    /\ puts = <<>>
    /\ writes = 0
    /\ out = <<>>

Init ==
    /\ registry \in Registries
    /\ endpoint = Live
    /\ pc = "idle"
    /\ prev = None
    /\ Locals

probeVars == <<names, types, queue, running, finished, results>>

-----------------------------------------------------------------------------
(* cmd_switch_profile *)

\* target.lower() in p["name"].lower() or target.lower() in p["uid"].lower()
Matches(target, p) ==
    \/ Contains(lower(target), lower(p.name))
    \/ Contains(lower(target), lower(p.uid))

\* Mutant: the loop without its break, so the last matching profile wins.
FindMatchLast(ps, target) ==
    IF \A i \in DOMAIN ps : ~Matches(target, ps[i]) THEN None
    ELSE ps[CHOOSE i \in DOMAIN ps :
                /\ Matches(target, ps[i])
                /\ \A j \in DOMAIN ps : Matches(target, ps[j]) => j <= i]

\* Mutant: match starts as the first profile instead of None.
FindMatchOrFirst(ps, target) ==
    IF ps = <<>> THEN None
    ELSE IF \A i \in DOMAIN ps : ~Matches(target, ps[i]) THEN ps[1]
    ELSE ps[CHOOSE i \in DOMAIN ps :
                /\ Matches(target, ps[i])
                /\ \A j \in DOMAIN ps : Matches(target, ps[j]) => i <= j]

\* Mutant: a matching profile that is not active is preferred to the active one.
FindMatchInactiveFirst(ps, target) ==
    LET hits == SelectSeq(ps, LAMBDA p : Matches(target, p))
        idle == SelectSeq(hits, LAMBDA p : ~p.active)
    IN IF hits = <<>> THEN None
       ELSE IF idle # <<>> THEN idle[1]
       ELSE hits[1]

\* the for/break loop: the first profile that matches, or None
RECURSIVE FindMatch(_, _)
FindMatch(ps, target) ==
    IF ps = <<>> THEN None
    ELSE IF Matches(target, Head(ps)) THEN Head(ps)
    ELSE FindMatch(Tail(ps), target)

\* Mutant: cmd_switch_profile without the `if match["active"]` early return.
cmd_switch_profile_NoActiveCheck ==
    /\ pc = "idle"
    /\ \E target \in Queries :
        LET ps == get_remote_profiles
            m == FindMatch(ps, target)
        IN /\ cmd' = Cmd("switch-profile", target, <<>>)
           /\ profiles' = ps
           /\ match' = m
           /\ IF m = None
                 THEN /\ out' = <<Say("profile not found. Available", ps)>>
                      /\ pc' = "done"
                 ELSE /\ out' = <<Say("Switching to profile", m.uid)>>
                      /\ pc' = "switch_profile_persist"
    /\ UNCHANGED <<registry, endpoint, probeVars, puts, writes, prev>>

\* Lines 205-224: read the registry, match, and return early or announce the switch.
cmd_switch_profile ==
    /\ pc = "idle"
    /\ \E target \in Queries :
        LET ps == get_remote_profiles
            m == FindMatch(ps, target)
        IN /\ cmd' = Cmd("switch-profile", target, <<>>)
           /\ profiles' = ps
           /\ match' = m
           /\ IF m = None
                 THEN /\ out' = <<Say("profile not found. Available", ps)>>
                      /\ pc' = "done"
                 ELSE IF m.active
                 THEN /\ out' = <<Say("is already active", m.name)>>
                      /\ pc' = "done"
                 ELSE /\ out' = <<Say("Switching to profile", m.uid)>>
                      /\ pc' = "switch_profile_persist"
    /\ UNCHANGED <<registry, endpoint, probeVars, puts, writes, prev>>

\* Lines 226-230: load the registry again, set current, write it back.  open() for
\* writing can raise; nothing catches it.
switch_profile_persist ==
    /\ pc = "switch_profile_persist"
    /\ \/ /\ registry' = dump(SetCurrent(load_profiles_yaml, match.uid))
          /\ writes' = writes + 1
          /\ pc' = "switch_profile_reload"
          /\ UNCHANGED out
       \/ /\ pc' = "fault"
          /\ out' = Append(out, Say("Traceback", "OSError"))
          /\ UNCHANGED <<registry, writes>>
    /\ UNCHANGED <<endpoint, cmd, profiles, match, probeVars, puts, prev>>

ReloadRequest(m) ==
    [method |-> "PUT", path |-> "/configs?force=true", data |-> [path |-> ProfilePath(m.file)]]

\* Mutant: a failed reload puts the registry's current pointer back.
switch_profile_reload_Rollback ==
    /\ pc = "switch_profile_reload"
    /\ \E http \in PutResponses :
        LET result == api_request(http)
            was == SelectSeq(profiles, LAMBDA p : p.active)
        IN /\ puts' = Append(puts, ReloadRequest(match))
           /\ IF result = None
                 THEN /\ out' = Append(out, Say("mihomo config reloaded from", match.file))
                      /\ pc' = "switch_profile_verify"
                      /\ UNCHANGED registry
                 ELSE /\ out' = Append(out, Say("Error", "result"))
                      /\ pc' = "done"
                      /\ registry' = dump(SetCurrent(load_profiles_yaml,
                                                     IF was = <<>> THEN <<>> ELSE was[1].uid))
    /\ UNCHANGED <<endpoint, cmd, profiles, match, probeVars, writes, prev>>

\* Lines 233-236, 254-255: the force-reload PUT and the branch on its result.
switch_profile_reload ==
    /\ pc = "switch_profile_reload"
    /\ \E http \in PutResponses :
        LET result == api_request(http)
        IN /\ puts' = Append(puts, ReloadRequest(match))
           /\ IF result = None
                 THEN /\ out' = Append(out, Say("mihomo config reloaded from", match.file))
                      /\ pc' = "switch_profile_verify"
                 ELSE /\ out' = Append(out, Say("Error", "result"))
                      /\ pc' = "done"
    /\ UNCHANGED <<registry, endpoint, cmd, profiles, match, probeVars, writes, prev>>

\* Mutant: the filter by type alone, without the keyword test.
RealNodesByTypeOnly(listing) ==
    SelectSeq(listing, LAMBDA e : DictGet(e[2], "type", "None") \notin ReservedTypes)

\* the filter of lines 167-171 and 246-250 over an ordered listing
RECURSIVE RealNodes(_)
RealNodes(listing) ==
    IF listing = <<>> THEN <<>>
    ELSE LET name == Head(listing)[1]
             info == Head(listing)[2]
         IN (IF /\ DictGet(info, "type", "None") \notin ReservedTypes
                /\ ~HasInfoKeyword(name)
                THEN <<Head(listing)>>
                ELSE <<>>) \o RealNodes(Tail(listing))

\* Lines 238-253: GET /version, GET /proxies, the node count and the note.
switch_profile_verify ==
    /\ pc = "switch_profile_verify"
    /\ \E vhttp \in VersionResponses, phttp \in ListingAnswers :
        LET ver == api_request(vhttp)
            proxies == api_request(phttp)
            said == IF Truthy(ver) THEN Append(out, Say("running OK", DictGet(ver.d, "version", "?")))
                    ELSE out
        IN IF Truthy(proxies) /\ ~HasKey(proxies, "proxies")
              THEN /\ out' = Append(said, Say("Traceback", "KeyError"))
                   /\ pc' = "fault"
              ELSE /\ out' = Append(IF Truthy(proxies)
                                       THEN Append(said, Say("proxy nodes loaded",
                                                            Len(RealNodes(proxies.d["proxies"]))))
                                       ELSE said,
                                    Say("NOTE", "GUI may still show the old profile"))
                   /\ pc' = "done"
    /\ UNCHANGED <<registry, endpoint, cmd, profiles, match, probeVars, puts, writes, prev>>

-----------------------------------------------------------------------------
(* The probe round: ThreadPoolExecutor, as_completed, sort. *)

\* Mutant: a pool with room for twice as many workers.
max_workers_doubled == 16 + 16

max_workers == 16

\* Lines 116-122, given what api_request returned.
\* `"delay" in result` raises TypeError when result is a number.
test_single_node_delay(result) ==
    IF ~Truthy(result) THEN -1
    ELSE IF result.t = "number" THEN Raised
    ELSE IF HasKey(result, "delay") THEN result.d["delay"]
    ELSE -1

\* The tuple appended at line 181 (name, type, delay) or line 311 (name, delay).
ResultTuple(name, delay) ==
    IF cmd.name = "test" THEN <<name, Item(types, name), delay>> ELSE <<name, delay>>

NameOf(r) == r[1]

DelayOf(r) == r[Len(r)]

\* Mutant: the sort key is the delay alone.
SortKeyLessByDelay(a, b) == DelayOf(a) < DelayOf(b)

\* key(a) < key(b) for key = (delay < 0, delay); False sorts before True
SortKeyLess(a, b) ==
    \/ DelayOf(a) >= 0 /\ DelayOf(b) < 0
    \/ /\ (DelayOf(a) < 0) = (DelayOf(b) < 0)
       /\ DelayOf(a) < DelayOf(b)

RECURSIVE Insert(_, _)
Insert(sorted, x) ==
    IF sorted = <<>> THEN <<x>>
    ELSE IF SortKeyLess(x, Head(sorted)) THEN <<x>> \o sorted
    ELSE <<Head(sorted)>> \o Insert(Tail(sorted), x)

\* Mutant: the results are left in completion order.
NoSort(s) == s

\* list.sort(key=...): stable, so equal keys keep the order they had in the list
RECURSIVE sort(_)
sort(s) ==
    IF s = <<>> THEN <<>>
    ELSE Insert(sort(SubSeq(s, 1, Len(s) - 1)), s[Len(s)])

IsAvailable(r) == DelayOf(r) >= 0

\* Mutant: every result counts as available.
AvailableAny(rs) == rs

\* [r for r in results if r[delay] >= 0]
Available(rs) == SelectSeq(rs, IsAvailable)

\* A worker thread takes the next submitted probe from the pool's queue.
StartProbe ==
    /\ pc = "probing"
    /\ queue # <<>>
    /\ Cardinality(running) < max_workers
    /\ running' = running \cup {Head(queue)}
    /\ queue' = Tail(queue)
    /\ UNCHANGED <<registry, endpoint, pc, cmd, profiles, match, names, types,
                   finished, results, puts, writes, out, prev>>

\* A worker's delay call returns and its future completes with the delay.
FinishProbe ==
    /\ pc = "probing"
    /\ \E name \in running :
        \E http \in DelayResponses(name) :
            /\ finished' = finished \cup {<<name, test_single_node_delay(api_request(http))>>}
            /\ running' = running \ {name}
    /\ UNCHANGED <<registry, endpoint, pc, cmd, profiles, match, names, types,
                   queue, results, puts, writes, out, prev>>

\* Mutant: the loop body appends only the probes that answered.
CollectAnsweredOnly ==
    /\ pc = "probing"
    /\ \E f \in finished :
        /\ results' = IF f[2] >= 0 THEN Append(results, ResultTuple(f[1], f[2])) ELSE results
        /\ finished' = finished \ {f}
    /\ UNCHANGED <<registry, endpoint, pc, cmd, profiles, match, names, types,
                   queue, running, puts, writes, out, prev>>

\* as_completed yields a completed future; the loop body appends its result.
\* future.result() raises again what the worker raised, and nothing catches it.
Collect ==
    /\ pc = "probing"
    /\ \E f \in finished :
        /\ finished' = finished \ {f}
        /\ IF f[2] = Raised
              THEN /\ out' = Append(out, Say("Traceback", "TypeError"))
                   /\ pc' = "fault"
                   /\ UNCHANGED results
              ELSE /\ results' = Append(results, ResultTuple(f[1], f[2]))
                   /\ UNCHANGED <<pc, out>>
    /\ UNCHANGED <<registry, endpoint, cmd, profiles, match, names, types,
                   queue, running, puts, writes, prev>>

\* Mutant: the loop ends once every submitted probe has been taken by a worker.
RoundOverWhenStarted == queue = <<>>

\* as_completed is exhausted once every submitted future has been yielded.
RoundOver == queue = <<>> /\ running = {} /\ finished = {}

\* The sort key (x[delay] < 0, x[delay]) raises TypeError on a delay that is no number.
SortRaises(rs) == \E i \in DOMAIN rs : DelayOf(rs[i]) = NotANumber

-----------------------------------------------------------------------------
(* cmd_test *)

TypesOf(listing) == [i \in 1..Len(listing) |-> <<listing[i][1], listing[i][2].type>>]

\* Lines 152-177: the active profile, GET /proxies, the filter, the submissions.
cmd_test ==
    /\ pc = "idle"
    /\ LET ps == get_remote_profiles
       IN /\ cmd' = Cmd("test", <<>>, <<>>)
          /\ profiles' = ps
          /\ IF ~\E i \in DOMAIN ps : ps[i].active
                THEN /\ out' = <<Say("Error: no active profile found", "")>>
                     /\ pc' = "done"
                     /\ UNCHANGED <<names, types, queue>>
                ELSE \E http \in ListingAnswers :
                    LET result == api_request(http)
                    IN IF \/ ~Truthy(result)
                          \/ HasKey(result, "proxies") /\ result.d["proxies"] = <<>>
                          THEN /\ out' = <<Say("Error: cannot fetch proxies from mihomo API", "")>>
                               /\ pc' = "done"
                               /\ UNCHANGED <<names, types, queue>>
                          ELSE IF ~HasKey(result, "proxies")
                          THEN /\ out' = <<Say("Traceback", "KeyError")>>
                               /\ pc' = "fault"
                               /\ UNCHANGED <<names, types, queue>>
                          ELSE LET real_nodes == RealNodes(result.d["proxies"])
                               IN /\ names' = Keys(real_nodes)
                                  /\ types' = TypesOf(real_nodes)
                                  /\ queue' = Keys(real_nodes)
                                  /\ out' = <<Say("Testing nodes", Len(real_nodes))>>
                                  /\ pc' = "probing"
    /\ UNCHANGED <<registry, endpoint, match, running, finished, results, puts, writes, prev>>

\* Lines 183-202: sort, print the table, the availability count and the best node.
test_report ==
    /\ pc = "probing"
    /\ cmd.name = "test"
    /\ RoundOver
    /\ IF SortRaises(results)
          THEN /\ out' = Append(out, Say("Traceback", "TypeError"))
               /\ pc' = "fault"
               /\ UNCHANGED results
          ELSE LET sorted == sort(results)
                   available == Available(sorted)
               IN /\ results' = sorted
                  /\ out' = out \o <<Say("table", sorted), Say("available", Len(available))>>
                                \o (IF available # <<>> THEN <<Say("Best", available[1])>>
                                    ELSE <<>>)
                  /\ pc' = "done"
    /\ UNCHANGED <<registry, endpoint, cmd, profiles, match, names, types, queue,
                   running, finished, puts, writes, prev>>

-----------------------------------------------------------------------------
(* cmd_best *)

IsCandidate(n) == ~HasInfoKeyword(n) /\ n \notin {DIRECT, REJECT, PASS}

\* Lines 288-293
Candidates(all) == SelectSeq(all, IsCandidate)

\* Lines 297-301: proxies["proxies"].get(name, {}) and the type test
RECURSIVE ActualNodes(_, _)
ActualNodes(candidates, listing) ==
    IF candidates = <<>> THEN <<>>
    ELSE LET name == Head(candidates)
             pinfo == IF HasItem(listing, name) THEN Item(listing, name) ELSE <<>>
         IN (IF DictGet(pinfo, "type", "None") \notin ReservedTypes THEN <<name>> ELSE <<>>)
            \o ActualNodes(Tail(candidates), listing)

\* pinfo.get("type") for each kept name: None for an entry without a type, and "absent"
\* where proxies["proxies"] has no entry of that name and .get answered {}.
LookedUp(actual_nodes, listing) ==
    [i \in 1..Len(actual_nodes) |->
        <<actual_nodes[i],
          IF HasItem(listing, actual_nodes[i])
             THEN DictGet(Item(listing, actual_nodes[i]), "type", "None")
             ELSE "absent">>]

SelectRequest(group, name) ==
    [method |-> "PUT", path |-> <<"/proxies/", group>>, data |-> [name |-> name]]

\* Lines 280-307: read the group, filter, GET /proxies, keep the nodes, submit them.
cmd_best ==
    /\ pc = "idle"
    /\ \E group \in Groups : \E ghttp \in GroupAnswers(group) :
        LET info == api_request(ghttp)
        IN /\ cmd' = Cmd("best", <<>>, group)
           /\ IF ~Truthy(info) \/ ~HasKey(info, "all")
                 THEN /\ out' = <<Say("Error: cannot read group", group)>>
                      /\ pc' = "done"
                      /\ UNCHANGED <<names, types, queue>>
                 ELSE \E phttp \in ListingAnswers :
                     LET proxies == api_request(phttp)
                         candidates == Candidates(info.d["all"])
                     IN IF candidates # <<>> /\ ~HasKey(proxies, "proxies")
                           THEN /\ out' = <<Say("Traceback", "proxies[\"proxies\"]")>>
                                /\ pc' = "fault"
                                /\ UNCHANGED <<names, types, queue>>
                           ELSE LET actual_nodes ==
                                        IF candidates = <<>> THEN <<>>
                                        ELSE ActualNodes(candidates, proxies.d["proxies"])
                                IN /\ names' = actual_nodes
                                   /\ types' = IF candidates = <<>> THEN <<>>
                                               ELSE LookedUp(actual_nodes, proxies.d["proxies"])
                                   /\ queue' = actual_nodes
                                   /\ out' = <<Say("Testing nodes", Len(actual_nodes))>>
                                   /\ pc' = "probing"
    /\ UNCHANGED <<registry, endpoint, profiles, match, running, finished,
                   results, puts, writes, prev>>

\* Lines 313-332: sort, print the top ten, and PUT the best available node if there is one.
best_select ==
    /\ pc = "probing"
    /\ cmd.name = "best"
    /\ RoundOver
    /\ IF SortRaises(results)
          THEN /\ out' = Append(out, Say("Traceback", "TypeError"))
               /\ pc' = "fault"
               /\ UNCHANGED <<results, puts>>
          ELSE LET sorted == sort(results)
                   available == Available(sorted)
                   shown == <<Say("top", SubSeq(sorted, 1,
                                                IF Len(sorted) < 10 THEN Len(sorted) ELSE 10))>>
               IN /\ results' = sorted
                  /\ pc' = "done"
                  /\ IF available # <<>>
                        THEN \E http \in PutResponses :
                            LET best_name == NameOf(available[1])
                                result == api_request(http)
                            IN /\ puts' = Append(puts, SelectRequest(cmd.group, best_name))
                               /\ out' = out \o shown \o
                                         << Say("Best", available[1]),
                                            IF result = None THEN Say("Switched", best_name)
                                            ELSE Say("Error switching", "result") >>
                        ELSE /\ out' = out \o shown \o <<Say("No available nodes!", "")>>
                             /\ UNCHANGED puts
    /\ UNCHANGED <<registry, endpoint, cmd, profiles, match, names, types, queue,
                   running, finished, writes, prev>>

-----------------------------------------------------------------------------
(* cmd_switch_node, cmd_status, cmd_list *)

NodeArgs == {N1, N2, <<"z">>}

\* Lines 258-277: PUT the selection; on 204 probe the node, otherwise list the group.
\* The probe can raise, and `delay >= 0` raises on a delay that is no number.
cmd_switch_node ==
    /\ pc = "idle"
    /\ \E node_name \in NodeArgs, group \in Groups, http \in PutResponses :
        /\ cmd' = Cmd("switch-node", node_name, group)
        /\ puts' = <<SelectRequest(group, node_name)>>
        /\ IF api_request(http) = None
              THEN \E dhttp \in DelayResponses(node_name) :
                  LET delay == test_single_node_delay(api_request(dhttp))
                  IN IF delay \in {Raised, NotANumber}
                        THEN /\ out' = <<Say("Switched", node_name),
                                         Say("Traceback", "TypeError")>>
                             /\ pc' = "fault"
                        ELSE /\ out' = << Say("Switched", node_name),
                                          IF delay >= 0 THEN Say("Delay", delay)
                                          ELSE Say("Warning: node may not be reachable", "") >>
                             /\ pc' = "done"
              ELSE \E ihttp \in GroupAnswers(group) :
                  LET info == api_request(ihttp)
                  IN /\ out' = <<Say("Error", "result")>> \o
                               (IF Truthy(info) /\ HasKey(info, "all")
                                   THEN <<Say("Available nodes in", info.d["all"])>>
                                   ELSE <<>>)
                     /\ pc' = "done"
    /\ UNCHANGED <<registry, endpoint, profiles, match, probeVars, writes, prev>>

\* The profile backing files under PROFILES_DIR; a profile not yet downloaded has none.
ProfileFiles ==
    << <<"a1.yaml", << [name |-> N1, type |-> "ss"],
                       [name |-> InfoRow, type |-> "ss"],
                       [name |-> DIRECT, type |-> "Direct"],
                       [name |-> N2, type |-> "vmess"] >> >>,
       <<"b2.yaml", << [name |-> N3, type |-> "trojan"] >> >> >>

IsListed(p) == ~HasInfoKeyword(DictGet(p, "name", <<>>))

\* Lines 94-113
parse_profile_nodes(profile) ==
    IF ~HasItem(ProfileFiles, profile.file) THEN <<>>
    ELSE SelectSeq(Item(ProfileFiles, profile.file), IsListed)

NodeCounts(ps) == [i \in 1..Len(ps) |-> Len(parse_profile_nodes(ps[i]))]

\* Lines 136-148: under each profile, the nodes parse_profile_nodes kept for it
NodesPrinted(ps) == [i \in 1..Len(ps) |-> parse_profile_nodes(ps[i])]

\* Lines 125-149
cmd_list ==
    /\ pc = "idle"
    /\ cmd' = Cmd("list", <<>>, <<>>)
    /\ profiles' = get_remote_profiles
    /\ out' = <<Say("Clash Verge Proxy Nodes", NodesPrinted(get_remote_profiles))>>
    /\ pc' = "done"
    /\ UNCHANGED <<registry, endpoint, match, probeVars, puts, writes, prev>>

\* Lines 335-368: three GETs, then prints that dereference what they returned.
cmd_status ==
    /\ pc = "idle"
    /\ \E chttp \in ConfigResponses, phttp \in ListingAnswers, vhttp \in VersionResponses :
        LET config == api_request(chttp)
            proxies == api_request(phttp)
            ver == api_request(vhttp)
        IN IF ver = None
              THEN /\ out' = <<Say("Traceback", "ver.get")>>
                   /\ pc' = "fault"
              ELSE IF config = None
              THEN /\ out' = <<Say("Core", DictGet(ver.d, "version", "?")),
                               Say("Traceback", "config.get")>>
                   /\ pc' = "fault"
              ELSE IF Truthy(proxies) /\ ~HasKey(proxies, "proxies")
              THEN /\ out' = <<Say("Core", DictGet(ver.d, "version", "?")),
                               Say("Mode", DictGet(config.d, "mode", "?")),
                               Say("Profiles", NodeCounts(get_remote_profiles)),
                               Say("Traceback", "KeyError")>>
                   /\ pc' = "fault"
              ELSE /\ out' = <<Say("Core", DictGet(ver.d, "version", "?")),
                               Say("Mode", DictGet(config.d, "mode", "?")),
                               Say("Profiles", NodeCounts(get_remote_profiles))>>
                   /\ pc' = "done"
    /\ cmd' = Cmd("status", <<>>, <<>>)
    /\ profiles' = get_remote_profiles
    /\ UNCHANGED <<registry, endpoint, match, probeVars, puts, writes, prev>>

-----------------------------------------------------------------------------
(* The process ends; the next invocation starts with fresh locals. *)

RoundRecord == [names |-> names, sorted |-> results]

Exit ==
    /\ pc \in {"done", "fault"}
    /\ pc' = "idle"
    /\ prev' = IF /\ endpoint.frozen
                  /\ pc = "done"
                  /\ cmd.name \in {"test", "best"}
                  /\ names # <<>>
                  THEN RoundRecord
                  ELSE prev
    /\ cmd' = NoCmd
    /\ profiles' = <<>>
    /\ match' = None
    /\ names' = <<>>
    /\ types' = <<>>
    /\ queue' = <<>>
    /\ running' = {}
    /\ finished' = {}
    /\ results' = <<>>
    /\ puts' = <<>>
    /\ writes' = 0
    /\ out' = <<>>
    /\ UNCHANGED <<registry, endpoint>>

Next ==
    \/ cmd_status
    \/ cmd_list
    \/ cmd_test
    \/ test_report
    \/ cmd_best
    \/ best_select
    \/ StartProbe
    \/ FinishProbe
    \/ Collect
    \/ cmd_switch_profile
    \/ switch_profile_persist
    \/ switch_profile_reload
    \/ switch_profile_verify
    \/ cmd_switch_node
    \/ Exit

Spec == Init /\ [][Next]_vars

-----------------------------------------------------------------------------
(* The same program against a frozen mock endpoint: every delay call for a *)
(* name gets the same answer, in every round.                              *)

FrozenAnswers ==
    { Json([delay |-> d]) : d \in 0..MaxDelay } \cup {[kind |-> "exception", reason |-> "timed out"]}

FrozenTables == { << <<N1, a>>, <<N2, b>> >> : a \in FrozenAnswers, b \in FrozenAnswers }

InitFrozen ==
    /\ registry = << <<"items", <<ItemA, ItemB>> >>, <<"current", <<"a", "1">> >>, <<"valid", "dns">> >>
    /\ endpoint \in { Mock(t, ListingUniverse,
                           << <<Proxies, MemberUniverse>>, <<Auto, MemberUniverse>> >>) :
                          t \in FrozenTables }
    /\ pc = "idle"
    /\ prev = None
    /\ Locals

SpecFrozen == InitFrozen /\ [][Next]_vars

-----------------------------------------------------------------------------
(* The same program against a daemon whose group Proxies has more members  *)
(* than the pool has workers.  The delay calls of the first PoolAnswering  *)
(* members return; the others are still waiting for their answer.  Beside  *)
(* it, a daemon that has loaded the small listing only.                    *)

PoolLabels ==
    << "01", "02", "03", "04", "05", "06", "07", "08", "09", "10",
       "11", "12", "13", "14", "15", "16", "17", "18", "19", "20" >>

PoolName(i) == <<"M", PoolLabels[i]>>

PoolNames == [i \in 1..PoolSize |-> PoolName(i)]

PoolListing == ListingUniverse \o [i \in 1..PoolSize |-> <<PoolName(i), [type |-> "Vmess"]>>]

PoolTable ==
    << <<N1, Json([delay |-> 0])>>, <<N2, Json([delay |-> 1])>> >>
    \o [i \in 1..PoolSize |->
           <<PoolName(i), IF i <= PoolAnswering THEN Json([delay |-> i]) ELSE Pending>>]

InitPool ==
    /\ registry = << <<"items", <<ItemA, ItemB>> >>, <<"current", <<"a", "1">> >>, <<"valid", "dns">> >>
    /\ endpoint \in
           { Mock(PoolTable, PoolListing,
                  << <<Proxies, PoolNames>>, <<Auto, MemberUniverse>> >>),
             Mock(PoolTable, ListingUniverse,
                  << <<Proxies, MemberUniverse>>, <<Auto, MemberUniverse>> >>) }
    /\ pc = "idle"
    /\ prev = None
    /\ Locals

SpecPool == InitPool /\ [][Next]_vars

-----------------------------------------------------------------------------
(* Properties. *)

\* a probe round was started by this invocation
RoundRan == cmd.name \in {"test", "best"} /\ out # <<>> /\ out[1].msg = "Testing nodes"

\* the round's results have been sorted
RoundSorted == RoundRan /\ pc = "done"

IndexIn(s, x) == CHOOSE i \in DOMAIN s : s[i] = x

\* the query is a case-insensitive substring of the profile's display name or uid
QueryHits(q, p) ==
    \/ Contains(lower(q), lower(p.name))
    \/ Contains(lower(q), lower(p.uid))

\* profile i of the profiles this invocation read is the first the query hits
IsFirstHit(i) ==
    /\ i \in DOMAIN profiles
    /\ QueryHits(cmd.arg, profiles[i])
    /\ \A j \in 1..(i - 1) : ~QueryHits(cmd.arg, profiles[j])

\* C1: when as_completed is exhausted in test or best, results has as many entries as
\* names were submitted and exactly one entry for each submitted name.
C1_OneResultPerName ==
    (RoundRan /\ (pc = "done" \/ (pc = "probing" /\ queue = <<>> /\ running = {} /\ finished = {})))
        => /\ Len(results) = Len(names)
           /\ \A i \in DOMAIN names :
                  Cardinality({j \in DOMAIN results : NameOf(results[j]) = names[i]}) = 1

C1_Witness ==
    /\ pc = "probing" /\ queue = <<>> /\ running = {} /\ finished = {}
    /\ Len(names) = 3
    /\ NameOf(results[1]) = names[3]
    /\ DelayOf(results[1]) = -1
    /\ DelayOf(results[2]) = 0
    /\ DelayOf(results[3]) = MaxDelay

\* C2: after the sort, available results (delay >= 0, zero included) are in ascending
\* delay order and no unreachable result stands before an available one.
C2_SortedAvailableFirst ==
    RoundSorted =>
        \A i, j \in DOMAIN results :
            i < j =>
                /\ (DelayOf(results[i]) >= 0 /\ DelayOf(results[j]) >= 0)
                       => DelayOf(results[i]) <= DelayOf(results[j])
                /\ ~(DelayOf(results[i]) < 0 /\ DelayOf(results[j]) >= 0)

C2_Witness ==
    /\ RoundSorted
    /\ Len(results) = 3
    /\ DelayOf(results[1]) = 0
    /\ DelayOf(results[2]) = MaxDelay
    /\ DelayOf(results[3]) = -1
    /\ NameOf(results[1]) = names[3]

\* C3: in the sorted results, entries with equal delay stand in the order of the
\* submitted names.
C3_TiesInInputOrder ==
    RoundSorted =>
        \A i, j \in DOMAIN results :
            (i < j /\ DelayOf(results[i]) = DelayOf(results[j]))
                => IndexIn(names, NameOf(results[i])) < IndexIn(names, NameOf(results[j]))

NameDelay(rs) == [i \in 1..Len(rs) |-> <<NameOf(rs[i]), DelayOf(rs[i])>>]

\* C4: two rounds over the same names against a frozen endpoint give the same sorted
\* sequence of (name, delay).
C4_FrozenRoundsAgree ==
    (RoundSorted /\ endpoint.frozen /\ prev # None)
        => (prev.names = names => NameDelay(prev.sorted) = NameDelay(results))

\* C5: a PUT issued by best names a node whose result in this round is available, and a
\* round with no available result ends with no PUT and "No available nodes!" printed.
C5_NeverSelectUnreachable ==
    cmd.name = "best" =>
        /\ \A k \in DOMAIN puts :
               \E i \in DOMAIN results :
                   /\ NameOf(results[i]) = puts[k].data.name
                   /\ DelayOf(results[i]) >= 0
        /\ (RoundSorted /\ \A i \in DOMAIN results : DelayOf(results[i]) < 0)
               => /\ puts = <<>>
                  /\ out[Len(out)].msg = "No available nodes!"

C5_Witness ==
    /\ cmd.name = "best"
    /\ RoundSorted
    /\ Len(results) = 2
    /\ \A i \in DOMAIN results : DelayOf(results[i]) < 0
    /\ puts = <<>>

\* C6: when a round of best has an available result, best issues exactly one PUT, to the
\* group's selector, naming a node whose delay is the least non-negative delay of the round.
C6_BestIsMinimum ==
    (cmd.name = "best" /\ RoundSorted /\ \E i \in DOMAIN results : DelayOf(results[i]) >= 0)
        => /\ Len(puts) = 1
           /\ puts[1].method = "PUT"
           /\ puts[1].path = <<"/proxies/", cmd.group>>
           /\ \E i \in DOMAIN results :
                  /\ NameOf(results[i]) = puts[1].data.name
                  /\ DelayOf(results[i]) >= 0
                  /\ \A j \in DOMAIN results :
                         DelayOf(results[j]) >= 0 => DelayOf(results[i]) <= DelayOf(results[j])

C6_Witness ==
    /\ cmd.name = "best"
    /\ RoundSorted
    /\ Len(results) = 3
    /\ puts = <<SelectRequest(Auto, N1)>>
    /\ names = <<Auto, N2, N1>>
    /\ DelayOf(results[1]) = 1
    /\ DelayOf(results[2]) = 2
    /\ DelayOf(results[3]) = -1

\* C7 as stated: whenever the query hits the profile that is active, switch-profile
\* writes nothing, sends no PUT and reports that the profile is already active.
C7_Original ==
    (cmd.name = "switch-profile"
        /\ \E i \in DOMAIN profiles : profiles[i].active /\ QueryHits(cmd.arg, profiles[i]))
        => /\ writes = 0
           /\ puts = <<>>
           /\ pc = "done" => out[1].msg = "is already active"

\* C7 amended: when the first profile the query hits, in registry order, is the active
\* one, switch-profile writes nothing, sends no PUT and reports "already active".
C7_FirstHitActiveIsNoOp ==
    (cmd.name = "switch-profile"
        /\ \E i \in DOMAIN profiles : IsFirstHit(i) /\ profiles[i].active)
        => /\ writes = 0
           /\ puts = <<>>
           /\ pc = "done"
           /\ Len(out) = 1 /\ out[1].msg = "is already active"
           /\ get_remote_profiles = profiles

C7_Witness ==
    /\ cmd.name = "switch-profile"
    /\ pc = "done"
    /\ out[1].msg = "is already active"
    /\ \E i, j \in DOMAIN profiles :
           /\ IsFirstHit(i) /\ profiles[i].active
           /\ i < j /\ QueryHits(cmd.arg, profiles[j]) /\ ~profiles[j].active

\* C8: when the query hits no remote profile of the registry, switch-profile writes
\* nothing, sends no PUT, and prints "not found" with the list of all remote profiles.
C8_UnknownQueryIsNoOp ==
    (cmd.name = "switch-profile"
        /\ \A i \in DOMAIN get_remote_profiles : ~QueryHits(cmd.arg, get_remote_profiles[i]))
        => /\ writes = 0
           /\ puts = <<>>
           /\ pc = "done"
           /\ Len(out) = 1
           /\ out[1].msg = "profile not found. Available"
           /\ out[1].arg = get_remote_profiles

C8_Witness ==
    /\ cmd.name = "switch-profile"
    /\ pc = "done"
    /\ out[1].msg = "profile not found. Available"
    /\ Len(get_remote_profiles) = 2
    /\ cmd.arg = <<"z">>

\* C9 as stated: for any non-active remote profile P the query hits, a switch-profile
\* that runs to its end has set current to P's uid and sent the reload PUT with P's path.
C9_Original ==
    \A i \in DOMAIN profiles :
        (cmd.name = "switch-profile" /\ pc = "done"
            /\ QueryHits(cmd.arg, profiles[i]) /\ ~profiles[i].active)
            => /\ DictGet(load_profiles_yaml, "current", <<>>) = profiles[i].uid
               /\ puts = << [method |-> "PUT", path |-> "/configs?force=true",
                             data |-> [path |-> <<PROFILES_DIR, profiles[i].file>>]] >>

\* C9 amended: when the first profile the query hits, in registry order, is a non-active
\* profile P, every registry write of the invocation sets current to P's uid, the only
\* PUT it sends is the force-reload with the path of P's file, sent after the write, and
\* an invocation that runs to its end has done both.
C9_FirstHitIsSwitchedTo ==
    \A i \in DOMAIN profiles :
        (cmd.name = "switch-profile" /\ IsFirstHit(i) /\ ~profiles[i].active)
            => /\ writes \in {0, 1}
               /\ writes = 1 => DictGet(load_profiles_yaml, "current", <<>>) = profiles[i].uid
               /\ \/ puts = <<>>
                  \/ /\ writes = 1
                     /\ puts = << [method |-> "PUT", path |-> "/configs?force=true",
                                   data |-> [path |-> <<PROFILES_DIR, profiles[i].file>>]] >>
               /\ pc = "done" => (writes = 1 /\ puts # <<>>)
               /\ pc \in {"switch_profile_persist", "switch_profile_reload",
                          "switch_profile_verify", "done", "fault"}

C9_Witness ==
    /\ cmd.name = "switch-profile"
    /\ pc = "done"
    /\ cmd.arg = <<"W">>
    /\ Len(profiles) = 2
    /\ profiles[1].name = Home /\ profiles[1].active
    /\ profiles[2].uid = <<"W", "2">> /\ profiles[2].name = <<"W", "2">> /\ ~profiles[2].active
    /\ DictGet(load_profiles_yaml, "current", <<>>) = <<"W", "2">>
    /\ puts[1].data.path = <<PROFILES_DIR, "w2.yaml">>

\* C10: a step changes the registry file only in switch-profile's persist step, and then
\* the loaded registry differs from what was loaded before in its `current` field alone:
\* `items` and every other top-level field are the same.
C10_OnlyCurrentChanges ==
    [][registry' # registry =>
          /\ cmd.name = "switch-profile"
          /\ pc = "switch_profile_persist"
          /\ DOMAIN safe_load(registry') = DOMAIN safe_load(registry) \cup {"current"}
          /\ \A k \in DOMAIN safe_load(registry) \ {"current"} :
                 safe_load(registry')[k] = safe_load(registry)[k]]_vars

C10_Witness ==
    /\ cmd.name = "switch-profile"
    /\ writes = 1
    /\ registry = << <<"current", <<"b", "2">> >>,
                     <<"items", <<ItemM, ItemA, ItemB>> >>,
                     <<"valid", "dns">> >>
    /\ \A i \in DOMAIN profiles : ~profiles[i].active

\* the registry write of this switch-profile was attempted and raised
WriteFailed ==
    /\ cmd.name = "switch-profile"
    /\ match # None
    /\ ~match.active
    /\ writes = 0
    /\ pc # "switch_profile_persist"

\* C11: switch-profile sends the reload PUT only after the registry write of `current`
\* has completed; when the write fails, the command reports the failure (it ends in the
\* ordinary way, not in an unhandled exception) and sends no reload PUT.
C11_WriteThenReload ==
    cmd.name = "switch-profile" =>
        /\ puts # <<>> => writes = 1
        /\ WriteFailed => (puts = <<>> /\ pc = "done")

\* C12: whatever the daemon answers to a command's calls (a JSON body, 204, an error
\* envelope), the command ends by printing an outcome: the only unhandled exception a
\* command can end in is the one of a registry file that cannot be written.
C12_NoUnhandledFault ==
    pc = "fault" => out[Len(out)] = Say("Traceback", "OSError")

\* the value a probe gave is a number: a delay >= 0 or the sentinel -1
IsDelay(v) == v >= -1

\* C13: every probe of a round yields a delay >= 0 or the sentinel -1, whatever the
\* daemon answers to its delay call, and no answer to one node's call makes the round
\* end in an unhandled exception instead of collecting and sorting the other results.
C13_ProbesNeverAbortRound ==
    RoundRan =>
        /\ \A f \in finished : IsDelay(f[2])
        /\ \A i \in DOMAIN results : IsDelay(DelayOf(results[i]))
        /\ pc # "fault"

\* the names this round hands to the pool
Probed == {names[i] : i \in DOMAIN names}

C15_BestProbesListedNodes ==
    (cmd.name = "best" /\ RoundRan) =>
        \A n \in Probed :
            /\ Item(types, n) # "absent"
            /\ Item(types, n) \notin ReservedTypes

\* the live-daemon view keeps an entry with this name and type
LiveViewKeeps(name, type) == RealNodes(<< <<name, [type |-> type]>> >>) # <<>>

\* C16: the profile-file view and the live-daemon view keep the same entries: an entry
\* (name, type) of a profile file is among the nodes list prints for the profile
\* exactly when the filter of test keeps an entry of that name and type.
C16_ViewsAgree ==
    (cmd.name = "list" /\ pc = "done") =>
        \A i \in DOMAIN profiles :
            HasItem(ProfileFiles, profiles[i].file) =>
                \A k \in DOMAIN Item(ProfileFiles, profiles[i].file) :
                    LET e == Item(ProfileFiles, profiles[i].file)[k]
                    IN (\E j \in DOMAIN out[1].arg[i] : out[1].arg[i][j] = e)
                           <=> LiveViewKeeps(e.name, e.type)

\* how many probes of the round a worker has taken, and how many of them have returned
Started == Len(names) - Len(queue)
Completed == Cardinality(finished) + Len(results)

\* C17: while a round is probing, at most 16 delay probes are in flight, however many
\* names were submitted, and a name after the sixteenth is started only when enough
\* earlier probes have completed to leave it a worker.
C17_AtMostSixteenInFlight ==
    pc = "probing" =>
        /\ Cardinality(running) <= 16
        /\ Started - Completed <= 16
        /\ \A i \in DOMAIN names :
               (i > 16 /\ names[i] \in running) => Completed >= i - 16

C17_Witness ==
    /\ pc = "probing"
    /\ cmd.name = "best"
    /\ Len(names) > 16
    /\ names[17] \in running
    /\ Cardinality(running) = 16
    /\ Completed = 1

\* the invocation has sorted, reported a result or chosen a node
Decided ==
    \/ pc = "done"
    \/ puts # <<>>
    \/ \E i \in DOMAIN out :
           out[i].msg \in {"table", "available", "top", "Best", "No available nodes!",
                           "Switched", "Error switching"}

\* C18: a round of test or best sorts, reports, chooses the best node and sends the
\* selector PUT only when every submitted probe has completed and been collected.
C18_RoundIsBarrier ==
    (RoundRan /\ Decided) =>
        /\ queue = <<>>
        /\ running = {}
        /\ finished = {}
        /\ Len(results) = Len(names)

C18_Witness ==
    /\ RoundRan
    /\ cmd.name = "test"
    /\ pc = "done"
    /\ Len(names) = 3
    /\ out[Len(out)].msg = "Best"
    /\ NameOf(out[Len(out)].arg) = names[2]

\* C19: once switch-profile has written the registry, `current` stays at the matched
\* uid for the rest of the invocation; a reload PUT that does not answer 204 ends the
\* command with "Error" and the registry still names the matched profile.
C19_NoRollback ==
    cmd.name = "switch-profile" =>
        /\ writes = 1 => DictGet(load_profiles_yaml, "current", <<>>) = match.uid
        /\ (pc = "done" /\ out[Len(out)] = Say("Error", "result"))
               => /\ writes = 1
                  /\ puts = <<ReloadRequest(match)>>
                  /\ DictGet(load_profiles_yaml, "current", <<>>) = match.uid

C19_Witness ==
    /\ cmd.name = "switch-profile"
    /\ pc = "done"
    /\ out[Len(out)] = Say("Error", "result")
    /\ match.uid = <<"b", "2">>
    /\ DictGet(load_profiles_yaml, "current", <<>>) = <<"b", "2">>
    /\ \E i \in DOMAIN profiles : profiles[i].active /\ profiles[i].uid = <<"a", "1">>

\* C20: the profile switch-profile acts on is the first of the registry's remote
\* profiles, in item order, that the query hits, however many it hits; when that first
\* one is active the command does nothing, and otherwise what it writes and reloads is
\* that first one.
C20_FirstMatchIsActedOn ==
    cmd.name = "switch-profile" =>
        /\ \A i \in DOMAIN profiles : IsFirstHit(i) => match = profiles[i]
        /\ (\A i \in DOMAIN profiles : ~QueryHits(cmd.arg, profiles[i])) => match = None
        /\ (match # None /\ match.active)
               => (pc = "done" /\ writes = 0 /\ puts = <<>> /\ get_remote_profiles = profiles)
        /\ (match # None /\ ~match.active)
               => /\ writes = 1 => DictGet(load_profiles_yaml, "current", <<>>) = match.uid
                  /\ \A k \in DOMAIN puts : puts[k].data.path = <<PROFILES_DIR, match.file>>

C20_Witness ==
    /\ cmd.name = "switch-profile"
    /\ cmd.arg = <<>>
    /\ Len(profiles) = 2
    /\ match = profiles[1]
    /\ profiles[2].active
    /\ writes = 1
    /\ puts # <<>>

====
